---- MODULE Spec2Model ----
(***************************************************************************)
(* Model of app/utils/task_manager.py: Task and TaskQueueManager (a        *)
(* bounded asyncio.Queue, a registry of Task objects, a pool of worker     *)
(* coroutines, start/stop).  One step of the model is what a coroutine      *)
(* does between two suspension points (await) of the asyncio event loop.   *)
(***************************************************************************)
EXTENDS Naturals, Sequences, FiniteSets, TLC

\* ---------------------------------------------------------------- bounds
MaxWorkers == 2      \* max_workers is drawn from 1..MaxWorkers
MaxQueueSize == 2    \* queue_size is drawn from 1..MaxQueueSize
MaxCalls == 3        \* number of add_task calls (accepted or rejected)
MaxStops == 2        \* number of stop() calls, made one after another
MaxLoggerCalls == 4  \* number of get_api_logger calls
MaxClock == 3        \* the clock readings are 0..MaxClock

Payloads == {"a"}
\* message texts of the faults the work may raise (Exception() has text "")
Faults == {"", "boom"}
Stoppers == 1..MaxStops

\* Python's None, and a str value (so that None and "" differ)
None == <<>>
Str(s) == <<s>>

VARIABLES
    max_workers,   \* self.max_workers
    queue_size,    \* self.queue_size
    tasks,         \* self.tasks: id -> Task
    queue,         \* self.queue: the Task references waiting, oldest first
    unfinished,    \* self.queue._unfinished_tasks
    workers,       \* self.workers: the worker coroutines, in creation order
    started,       \* self._started
    stop_event,    \* self._stop_event.is_set()
    stop_pc,       \* position of each stop() call
    stop_at,       \* history: what each stop() call found when it was called
    returned,      \* history: outcome of every add_task call, in call order
    dispatched,    \* history: ids in the order they entered "processing"
    faulted,       \* history: ids whose work raised an exception
    tool_returned, \* history: outcome of every process_async_tool call
    logger_cache,  \* logger.py _logger_cache: api_name -> logger instance
    logger_calls,  \* history: every get_api_logger call and what it returned
    now,           \* what datetime.now() returns
    timed          \* a Task object with its created_at and updated_at, if created

\* what belongs to the application around the manager
clock_vars == <<now, timed>>
app_vars == <<tool_returned, logger_cache, logger_calls, now, timed>>

vars == <<max_workers, queue_size, tasks, queue, unfinished, workers, started,
          stop_event, stop_pc, stop_at, returned, dispatched, faulted,
          tool_returned, logger_cache, logger_calls, now, timed>>

\* ------------------------------------------------------------------ Task
\* Task.__init__ with the id not fresh
NewTaskDupId(data) ==
    [id |-> 1, data |-> data, status |-> "pending", result |-> None, error |-> None]

\* Task.__init__ with the status not "pending"
NewTaskBusy(data) ==
    [id |-> Cardinality(DOMAIN tasks) + 1, data |-> data, status |-> "processing",
     result |-> None, error |-> None]

\* Task.__init__: uuid4 gives an id no registered task has
NewTask(data) ==
    [id |-> Cardinality(DOMAIN tasks) + 1, data |-> data, status |-> "pending",
     result |-> None, error |-> None]

\* Task.update_status(status, result=None, error=None)
update_status(task, status, result, error) ==
    [task EXCEPT !.status = status, !.result = result, !.error = error]

Terminal(id) == tasks[id].status \in {"completed", "failed"}

\* ----------------------------------------------------------- construction
\* TaskQueueManager.__init__
Init ==
    /\ max_workers \in 1..MaxWorkers
    /\ queue_size \in 1..MaxQueueSize
    /\ tasks = <<>>
    /\ queue = <<>>
    /\ unfinished = 0
    /\ workers = <<>>
    /\ started = FALSE
    /\ stop_event = FALSE
    /\ stop_pc = [s \in Stoppers |-> "idle"]
    /\ stop_at = [s \in Stoppers |-> None]
    /\ returned = <<>>
    /\ dispatched = <<>>
    /\ faulted = {}
    /\ tool_returned = <<>>
    /\ logger_cache = <<>>
    /\ logger_calls = <<>>
    /\ now = 0
    /\ timed = <<>>

\* asyncio.Queue.full() letting one item more in than maxsize
QueueFullOffByOne == Len(queue) > queue_size

\* asyncio.Queue.full() for maxsize > 0
QueueFull == Len(queue) >= queue_size

\* worker coroutine right after asyncio.create_task: not yet run
NewWorker == [pc |-> "created", task |-> 0, cancelled |-> FALSE]

\* _start_workers launching one worker more than max_workers
StartWorkersOneMore == [i \in 1..(max_workers + 1) |-> NewWorker]

\* TaskQueueManager._start_workers
StartWorkers == [i \in 1..max_workers |-> NewWorker]

\* start without the `if not self._started` test
StartAlways ==
    /\ workers' = workers \o StartWorkers
    /\ started' = TRUE
    /\ UNCHANGED <<max_workers, queue_size, tasks, queue, unfinished, stop_event,
                   stop_pc, stop_at, returned, dispatched, faulted>>
    /\ UNCHANGED app_vars

\* TaskQueueManager.start
Start ==
    /\ IF ~started
          THEN /\ workers' = workers \o StartWorkers
               /\ started' = TRUE
          ELSE UNCHANGED <<workers, started>>
    /\ UNCHANGED <<max_workers, queue_size, tasks, queue, unfinished, stop_event,
                   stop_pc, stop_at, returned, dispatched, faulted>>
    /\ UNCHANGED app_vars

\* add_task: `self.tasks[task.id] = task` forgetting the other entries
RegisterAlone(reg, task) == (task.id :> task)

\* add_task: `self.tasks[task.id] = task`
Register(reg, task) == (task.id :> task) @@ reg

\* put_nowait placing the item ahead of the waiting ones
EnqueueFront(q, item) == <<item>> \o q

\* put_nowait placing the item twice
EnqueueTwice(q, item) == q \o <<item, item>>

\* asyncio.Queue.put_nowait on a queue that is not full: the item goes last
Enqueue(q, item) == Append(q, item)

\* add_task creating and registering the Task before it tests queue.full()
AddTaskRegistersFirst(data) ==
    /\ Len(returned) < MaxCalls
    /\ LET task == NewTask(data) IN
       /\ tasks' = Register(tasks, task)
       /\ IF QueueFull
             THEN /\ returned' = Append(returned, [kind |-> "QueueFull", id |-> 0])
                  /\ UNCHANGED <<queue, unfinished>>
             ELSE /\ queue' = Enqueue(queue, task.id)
                  /\ unfinished' = unfinished + 1
                  /\ returned' = Append(returned, [kind |-> "id", id |-> task.id])

\* add_task: what it does to the manager, and what it returns or raises
AddTaskDoes(data) ==
    /\ Len(returned) < MaxCalls
    /\ IF QueueFull
          THEN /\ returned' = Append(returned, [kind |-> "QueueFull", id |-> 0])
               /\ UNCHANGED <<tasks, queue, unfinished>>
          ELSE LET task == NewTask(data) IN
               /\ tasks' = Register(tasks, task)
               /\ queue' = Enqueue(queue, task.id)
               /\ unfinished' = unfinished + 1
               /\ returned' = Append(returned, [kind |-> "id", id |-> task.id])

\* add_task as a put that waits while the queue is full
AddTaskBlocking(data) ==
    /\ ~QueueFull
    /\ AddTaskDoes(data)
    /\ UNCHANGED <<max_workers, queue_size, workers, started, stop_event,
                   stop_pc, stop_at, dispatched, faulted>>
    /\ UNCHANGED app_vars

\* TaskQueueManager.add_task
AddTask(data) ==
    /\ AddTaskDoes(data)
    /\ UNCHANGED <<max_workers, queue_size, workers, started, stop_event,
                   stop_pc, stop_at, dispatched, faulted>>
    /\ UNCHANGED app_vars

\* TaskQueueManager.get_task_status, of the registry reg
Snapshot(reg, task_id) ==
    IF task_id \in DOMAIN reg
       THEN Str([id |-> reg[task_id].id, status |-> reg[task_id].status,
                 result |-> reg[task_id].result, error |-> reg[task_id].error])
       ELSE None

\* get_task_status with self.tasks[task_id] in place of self.tasks.get(task_id)
GetTaskStatusKeyError(task_id) ==
    IF task_id \in DOMAIN tasks THEN Snapshot(tasks, task_id) ELSE Str("KeyError")

get_task_status(task_id) == Snapshot(tasks, task_id)

\* get_queue_stats reporting the configured worker count as the active one
GetQueueStatsConfigured ==
    [queue_size |-> Len(queue), max_queue_size |-> queue_size,
     active_workers |-> max_workers, max_workers |-> max_workers,
     total_tasks |-> Cardinality(DOMAIN tasks), is_started |-> started]

\* get_queue_stats reporting the unfinished count of the queue as its length
GetQueueStatsUnfinished ==
    [queue_size |-> unfinished, max_queue_size |-> queue_size,
     active_workers |-> Len(workers), max_workers |-> max_workers,
     total_tasks |-> Cardinality(DOMAIN tasks), is_started |-> started]

\* TaskQueueManager.get_queue_stats
get_queue_stats ==
    [queue_size |-> Len(queue), max_queue_size |-> queue_size,
     active_workers |-> Len(workers), max_workers |-> max_workers,
     total_tasks |-> Cardinality(DOMAIN tasks), is_started |-> started]

\* ---------------------------------------------------------------- workers
\* what the work of _process_task does: it returns, or raises Exception(msg)
Outcomes == {[fault |-> FALSE, msg |-> ""]} \cup {[fault |-> TRUE, msg |-> m] : m \in Faults}

\* a queue whose get leaves the item in place
DequeuePeek(q) == [item |-> Head(q), rest |-> q]

\* a queue that hands out the newest item
DequeueNewest(q) == [item |-> q[Len(q)], rest |-> SubSeq(q, 1, Len(q) - 1)]

\* asyncio.Queue.get on a non-empty queue: the oldest item leaves
Dequeue(q) == [item |-> Head(q), rest |-> Tail(q)]

\* the loop as `while True`: the stop signal is not looked at
LoopHeadIgnoresStop == "waiting"

\* the loop condition inverted
LoopHeadInverted == IF stop_event THEN "waiting" ELSE "done"

\* `while not self._stop_event.is_set()`: where the worker goes at the loop head
LoopHead == IF stop_event THEN "done" ELSE "waiting"

\* _process_task marking the task completed before the work
ProcessTaskBeginSkips(task) == update_status(task, "completed", None, None)

\* _process_task up to `await asyncio.sleep(1)`
ProcessTaskBegin(task) == update_status(task, "processing", None, None)

\* _process_task marking the task completed without the result
ProcessTaskEndNoResult(task, w, outcome) ==
    IF outcome.fault
       THEN update_status(task, "failed", None, Str(outcome.msg))
       ELSE update_status(task, "completed", None, None)

\* _process_task without its except branch
ProcessTaskEndUncaught(task, w, outcome) ==
    IF outcome.fault
       THEN task
       ELSE update_status(task, "completed",
                          Str([processed |-> task.data, worker |-> w]), None)

\* _process_task after the work: completed with the result, or the except branch
ProcessTaskEnd(task, w, outcome) ==
    IF outcome.fault
       THEN update_status(task, "failed", None, Str(outcome.msg))
       ELSE update_status(task, "completed",
                          Str([processed |-> task.data, worker |-> w]), None)

\* asyncio.Queue.task_done: the join() waiters wake when the count reaches 0
TaskDoneWakes(n) ==
    [s \in Stoppers |-> IF n = 0 /\ stop_pc[s] = "join" THEN "woken" ELSE stop_pc[s]]

\* _worker: the coroutine runs for the first time and reaches the loop head
WorkerRun(w) ==
    /\ w \in DOMAIN workers
    /\ workers[w].pc = "created" /\ ~workers[w].cancelled
    /\ workers' = [workers EXCEPT ![w].pc = LoopHead]
    /\ UNCHANGED <<max_workers, queue_size, tasks, queue, unfinished, started,
                   stop_event, stop_pc, stop_at, returned, dispatched, faulted>>
    /\ UNCHANGED app_vars

\* _worker: wait_for(queue.get()) yields a task; _process_task marks it processing.
\* queue.join() wakes when nothing is unfinished, so the queue is empty then;
\* the event loop runs its ready callbacks in order, so a stop() that join()
\* has woken resumes (and cancels the workers) before a getter that a later
\* put_nowait wakes.
WorkerGet(w) ==
    /\ w \in DOMAIN workers
    /\ workers[w].pc = "waiting" /\ ~workers[w].cancelled
    /\ queue # <<>>
    /\ \A s \in Stoppers : stop_pc[s] # "woken"
    /\ LET got == Dequeue(queue) IN
       /\ queue' = got.rest
       /\ tasks' = [tasks EXCEPT ![got.item] = ProcessTaskBegin(@)]
       /\ workers' = [workers EXCEPT ![w].pc = "processing", ![w].task = got.item]
       /\ dispatched' = Append(dispatched, got.item)
    /\ UNCHANGED <<max_workers, queue_size, unfinished, started, stop_event,
                   stop_pc, stop_at, returned, faulted>>
    /\ UNCHANGED app_vars

\* _worker awaiting queue.get() with no timeout: an empty queue never lets it go
WorkerWaitsForever(w) ==
    /\ w \in DOMAIN workers
    /\ workers[w].pc = "waiting" /\ ~workers[w].cancelled
    /\ queue = <<>>
    /\ FALSE
    /\ UNCHANGED vars

\* _worker: wait_for times out on the empty queue (TimeoutError: continue)
WorkerTimeout(w) ==
    /\ w \in DOMAIN workers
    /\ workers[w].pc = "waiting" /\ ~workers[w].cancelled
    /\ queue = <<>>
    /\ workers' = [workers EXCEPT ![w].pc = LoopHead]
    /\ UNCHANGED <<max_workers, queue_size, tasks, queue, unfinished, started,
                   stop_event, stop_pc, stop_at, returned, dispatched, faulted>>
    /\ UNCHANGED app_vars

\* _worker: the work ends, _process_task records it, task_done, loop head
WorkerFinish(w, outcome) ==
    /\ w \in DOMAIN workers
    /\ workers[w].pc = "processing" /\ ~workers[w].cancelled
    /\ LET t == workers[w].task IN
       /\ tasks' = [tasks EXCEPT ![t] = ProcessTaskEnd(@, w, outcome)]
       /\ faulted' = IF outcome.fault THEN faulted \cup {t} ELSE faulted
    /\ unfinished' = unfinished - 1
    /\ stop_pc' = TaskDoneWakes(unfinished - 1)
    /\ workers' = [workers EXCEPT ![w].pc = LoopHead, ![w].task = 0]
    /\ UNCHANGED <<max_workers, queue_size, queue, started, stop_event,
                   stop_at, returned, dispatched>>
    /\ UNCHANGED app_vars

\* _worker: CancelledError is delivered at the await; `break`
WorkerCancelled(w) ==
    /\ w \in DOMAIN workers
    /\ workers[w].pc # "done" /\ workers[w].cancelled
    /\ workers' = [workers EXCEPT ![w].pc = "done", ![w].task = 0]
    /\ UNCHANGED <<max_workers, queue_size, tasks, queue, unfinished, started,
                   stop_event, stop_pc, stop_at, returned, dispatched, faulted>>
    /\ UNCHANGED app_vars

\* ------------------------------------------------------------------- stop
\* stop: `for worker in self.workers: worker.cancel()`
CancelWorkers ==
    [i \in DOMAIN workers |->
        IF workers[i].pc = "done" THEN workers[i]
        ELSE [workers[i] EXCEPT !.cancelled = TRUE]]

AllWorkersDone == \A i \in DOMAIN workers : workers[i].pc = "done"

\* what a stop() call finds when it is called
StopFinds ==
    [tasks |-> DOMAIN tasks, started |-> started, queued |-> Len(queue),
     busy |-> Cardinality({id \in DOMAIN tasks : tasks[id].status = "processing"})]

\* stop without `await self.queue.join()`
StopCallNoJoin(s) ==
    /\ stop_pc[s] = "idle"
    /\ \A r \in Stoppers : r < s => stop_pc[r] = "returned"
    /\ stop_event' = TRUE
    /\ stop_at' = [stop_at EXCEPT ![s] = Str(StopFinds)]
    /\ workers' = CancelWorkers
    /\ stop_pc' = [stop_pc EXCEPT ![s] = IF workers = <<>> THEN "returned" ELSE "gather"]
    /\ UNCHANGED <<max_workers, queue_size, tasks, queue, unfinished, started,
                   returned, dispatched, faulted>>
    /\ UNCHANGED app_vars

\* stop whose queue.join() waits even when nothing is unfinished
StopCallAlwaysWaits(s) ==
    /\ stop_pc[s] = "idle"
    /\ \A r \in Stoppers : r < s => stop_pc[r] = "returned"
    /\ stop_event' = TRUE
    /\ stop_at' = [stop_at EXCEPT ![s] = Str(StopFinds)]
    /\ stop_pc' = [stop_pc EXCEPT ![s] = "join"]
    /\ UNCHANGED <<max_workers, queue_size, tasks, queue, unfinished, workers, started,
                   returned, dispatched, faulted>>
    /\ UNCHANGED app_vars

\* stop: set the stop signal, then queue.join(), which returns at once when
\* nothing is unfinished; then cancel the workers and gather them.  The owner
\* of the manager awaits each stop() before it calls stop() again.
StopCall(s) ==
    /\ stop_pc[s] = "idle"
    /\ \A r \in Stoppers : r < s => stop_pc[r] = "returned"
    /\ stop_event' = TRUE
    /\ stop_at' = [stop_at EXCEPT ![s] = Str(StopFinds)]
    /\ IF unfinished > 0
          THEN /\ stop_pc' = [stop_pc EXCEPT ![s] = "join"]
               /\ UNCHANGED workers
          ELSE /\ workers' = CancelWorkers
               /\ stop_pc' = [stop_pc EXCEPT ![s] =
                                 IF workers = <<>> THEN "returned" ELSE "gather"]
    /\ UNCHANGED <<max_workers, queue_size, tasks, queue, unfinished, started,
                   returned, dispatched, faulted>>
    /\ UNCHANGED app_vars

\* stop: queue.join() has returned; cancel the workers and gather them
StopAfterJoin(s) ==
    /\ stop_pc[s] = "woken"
    /\ workers' = CancelWorkers
    /\ stop_pc' = [stop_pc EXCEPT ![s] = IF workers = <<>> THEN "returned" ELSE "gather"]
    /\ UNCHANGED <<max_workers, queue_size, tasks, queue, unfinished, started,
                   stop_event, stop_at, returned, dispatched, faulted>>
    /\ UNCHANGED app_vars

\* stop returning without awaiting the gather of the workers
StopReturnNoGather(s) ==
    /\ stop_pc[s] = "gather"
    /\ stop_pc' = [stop_pc EXCEPT ![s] = "returned"]
    /\ UNCHANGED <<max_workers, queue_size, tasks, queue, unfinished, workers,
                   started, stop_event, stop_at, returned, dispatched, faulted>>
    /\ UNCHANGED app_vars

\* stop clearing _started when it returns
StopReturnResets(s) ==
    /\ stop_pc[s] = "gather"
    /\ AllWorkersDone
    /\ stop_pc' = [stop_pc EXCEPT ![s] = "returned"]
    /\ started' = FALSE
    /\ UNCHANGED <<max_workers, queue_size, tasks, queue, unfinished, workers,
                   stop_event, stop_at, returned, dispatched, faulted>>
    /\ UNCHANGED app_vars

\* stop: gather returns once every worker coroutine has ended
StopReturn(s) ==
    /\ stop_pc[s] = "gather"
    /\ AllWorkersDone
    /\ stop_pc' = [stop_pc EXCEPT ![s] = "returned"]
    /\ UNCHANGED <<max_workers, queue_size, tasks, queue, unfinished, workers,
                   started, stop_event, stop_at, returned, dispatched, faulted>>
    /\ UNCHANGED app_vars

\* ------------------------------------------------------- Task timestamps
manager_vars == <<max_workers, queue_size, tasks, queue, unfinished, workers, started,
                  stop_event, stop_pc, stop_at, returned, dispatched, faulted>>

\* update_status without `self.updated_at = datetime.now()`
StampKept(task, t) == task

\* Task.update_status: `self.updated_at = datetime.now()`
Stamp(task, t) == [task EXCEPT !.updated_at = t]

\* Task.__init__: created_at is read from the clock once, updated_at is the
\* same value
TimedTask(data, t) ==
    [id |-> 1, data |-> data, status |-> "pending", result |-> None, error |-> None,
     created_at |-> t, updated_at |-> t]

\* time passes: a later datetime.now() returns a later value
Tick ==
    /\ now < MaxClock
    /\ now' = now + 1
    /\ UNCHANGED <<timed, tool_returned, logger_cache, logger_calls>>
    /\ UNCHANGED manager_vars

\* Task(data)
TaskCreate(data) ==
    /\ timed = <<>>
    /\ timed' = <<TimedTask(data, now)>>
    /\ UNCHANGED <<now, tool_returned, logger_cache, logger_calls>>
    /\ UNCHANGED manager_vars

\* task.update_status("processing") of _process_task
TaskBegin ==
    /\ timed # <<>>
    /\ timed[1].status = "pending"
    /\ timed' = <<Stamp(ProcessTaskBegin(timed[1]), now)>>
    /\ UNCHANGED <<now, tool_returned, logger_cache, logger_calls>>
    /\ UNCHANGED manager_vars

\* task.update_status("completed", result=...) or ("failed", error=...)
TaskEnd(outcome) ==
    /\ timed # <<>>
    /\ timed[1].status = "processing"
    /\ timed' = <<Stamp(ProcessTaskEnd(timed[1], 1, outcome), now)>>
    /\ UNCHANGED <<now, tool_returned, logger_cache, logger_calls>>
    /\ UNCHANGED manager_vars

\* ------------------------------------------------------------ application
\* callback_url of process_async_tool: None or a url
CallbackUrls == {None, Str("http://cb")}

\* mq_client.send_message: it returns, or raises (RabbitMQClient re-raises)
Publishes == {"ok", "raises"}

\* PreprocessingSystem.preprocess of a payload with no 'image' or 'video' key
preprocess(data) == data

\* what the caller of process_async_tool gets: add_task raised, or the
\* publish did, or the TaskResponse with the task id
ToolOutcome(added, callback_url, publish) ==
    IF added.kind # "id"
       THEN [kind |-> "error", task_id |-> 0, registered |-> 0, publish |-> "none"]
       ELSE IF callback_url # None /\ publish = "raises"
               THEN [kind |-> "error", task_id |-> 0, registered |-> added.id,
                     publish |-> "raises"]
               ELSE [kind |-> "response", task_id |-> added.id, registered |-> added.id,
                     publish |-> IF callback_url = None THEN "none" ELSE "ok"]

\* main.py process_async_tool
ProcessAsyncTool(data, callback_url, publish) ==
    /\ AddTaskDoes(preprocess(data))
    /\ tool_returned' = Append(tool_returned,
                               ToolOutcome(returned'[Len(returned')], callback_url, publish))
    /\ UNCHANGED <<max_workers, queue_size, workers, started, stop_event,
                   stop_pc, stop_at, dispatched, faulted>>
    /\ UNCHANGED <<logger_cache, logger_calls>>
    /\ UNCHANGED clock_vars

\* main.py get_task_status_tool: the status dict, or an Exception when the
\* manager returns None (raised at line 264, re-raised at line 300)
get_task_status_tool(task_id) ==
    LET status == get_task_status(task_id) IN
    IF status = None
       THEN [kind |-> "raises", status |-> None]
       ELSE [kind |-> "returns", status |-> status]

\* main.py GET /api/v1/task/{task_id}: any exception of the tool becomes HTTP 500
get_task_status_route(task_id) ==
    LET got == get_task_status_tool(task_id) IN
    IF got.kind = "raises"
       THEN [status_code |-> 500, body |-> None]
       ELSE [status_code |-> 200, body |-> got.status]

\* request bodies of the async submission route
AppPayloads == {"a", "b"}

\* ------------------------------------------------------------------ logger
\* the api names asked for
ApiNames == {"sync_api", "async_api"}

\* values of the environment variable LOG_TYPE
LogTypes == {"none", "loguru", "aliyun", "logging", "other"}

\* which optional packages the imports at the top of logger.py found
Installs == SUBSET {"loguru", "aliyun"}

\* the branch of get_api_logger that picks the class of a new logger
LoggerClass(log_type, installed) ==
    IF log_type = "none" THEN "NullLogger"
    ELSE IF log_type = "loguru"
         THEN (IF "loguru" \in installed THEN "LoguruLogger" ELSE "BuiltinLogger")
    ELSE IF log_type = "aliyun"
         THEN (IF "aliyun" \in installed THEN "AliyunLogger" ELSE "BuiltinLogger")
    ELSE "BuiltinLogger"

\* a constructor returns, or raises (handlers, files, levels); NullLogger's cannot
Constructs(class) == IF class = "NullLogger" THEN {"ok"} ELSE {"ok", "raises"}

\* the loggers constructed so far
CreatedLoggers == {i \in DOMAIN logger_calls : logger_calls[i].created}

\* get_api_logger without the look-up in the cache
GetApiLoggerUncached(api_name, log_type, installed, construct) ==
    /\ Len(logger_calls) < MaxLoggerCalls
    /\ logger_calls # <<>> => installed = logger_calls[1].installed
    /\ construct \in Constructs(LoggerClass(log_type, installed))
    /\ IF construct = "raises"
          THEN /\ logger_calls' = Append(logger_calls,
                      [api_name |-> api_name, kind |-> "error", logger |-> 0,
                       class |-> "", created |-> FALSE, installed |-> installed])
               /\ UNCHANGED logger_cache
          ELSE LET logger == Cardinality(CreatedLoggers) + 1 IN
               /\ logger_cache' = (api_name :> logger) @@ logger_cache
               /\ logger_calls' = Append(logger_calls,
                      [api_name |-> api_name, kind |-> "logger", logger |-> logger,
                       class |-> LoggerClass(log_type, installed),
                       created |-> TRUE, installed |-> installed])
    /\ UNCHANGED <<max_workers, queue_size, tasks, queue, unfinished, workers,
                   started, stop_event, stop_pc, stop_at, returned, dispatched,
                   faulted, tool_returned>>
    /\ UNCHANGED clock_vars

\* logger.py get_api_logger; a logger instance is named by its creation number
GetApiLogger(api_name, log_type, installed, construct) ==
    /\ Len(logger_calls) < MaxLoggerCalls
    /\ logger_calls # <<>> => installed = logger_calls[1].installed
    /\ IF api_name \in DOMAIN logger_cache
          THEN /\ logger_calls' = Append(logger_calls,
                      [api_name |-> api_name, kind |-> "logger",
                       logger |-> logger_cache[api_name], class |-> "",
                       created |-> FALSE, installed |-> installed])
               /\ UNCHANGED logger_cache
          ELSE /\ construct \in Constructs(LoggerClass(log_type, installed))
               /\ IF construct = "raises"
                     THEN /\ logger_calls' = Append(logger_calls,
                                 [api_name |-> api_name, kind |-> "error", logger |-> 0,
                                  class |-> "", created |-> FALSE,
                                  installed |-> installed])
                          /\ UNCHANGED logger_cache
                     ELSE LET logger == Cardinality(CreatedLoggers) + 1 IN
                          /\ logger_cache' = (api_name :> logger) @@ logger_cache
                          /\ logger_calls' = Append(logger_calls,
                                 [api_name |-> api_name, kind |-> "logger",
                                  logger |-> logger,
                                  class |-> LoggerClass(log_type, installed),
                                  created |-> TRUE, installed |-> installed])
    /\ UNCHANGED <<max_workers, queue_size, tasks, queue, unfinished, workers,
                   started, stop_event, stop_pc, stop_at, returned, dispatched,
                   faulted, tool_returned>>
    /\ UNCHANGED clock_vars

\* ---------------------------------------------------------- specification
WorkerIds == 1..MaxWorkers

Next ==
    \/ Start
    \/ \E data \in Payloads : AddTask(data)
    \/ \E w \in WorkerIds : WorkerRun(w)
    \/ \E w \in WorkerIds : WorkerGet(w)
    \/ \E w \in WorkerIds : WorkerTimeout(w)
    \/ \E w \in WorkerIds, outcome \in Outcomes : WorkerFinish(w, outcome)
    \/ \E w \in WorkerIds : WorkerCancelled(w)
    \/ \E s \in Stoppers : StopCall(s)
    \/ \E s \in Stoppers : StopAfterJoin(s)
    \/ \E s \in Stoppers : StopReturn(s)

Spec == Init /\ [][Next]_vars

\* The event loop runs every coroutine that is ready: a created worker runs, a
\* waiting worker gets an item or times out after 1 s, the work of a task
\* returns or raises, a cancelled worker ends, a woken stop() goes on.
Fairness ==
    /\ \A w \in WorkerIds :
          /\ WF_vars(WorkerRun(w))
          /\ WF_vars(WorkerGet(w))
          /\ WF_vars(WorkerTimeout(w))
          /\ WF_vars(\E outcome \in Outcomes : WorkerFinish(w, outcome))
          /\ WF_vars(WorkerCancelled(w))
    /\ \A s \in Stoppers : WF_vars(StopAfterJoin(s)) /\ WF_vars(StopReturn(s))

FairSpec == Spec /\ Fairness

\* The manager as a caller of get_task_status and get_queue_stats meets it: the
\* two reads take no step, so they can be made in every state of the manager.
QuerySpec == Init /\ [][Next]_vars

\* The manager while stop() is never called.
NextNoStop ==
    \/ Start
    \/ \E data \in Payloads : AddTask(data)
    \/ \E w \in WorkerIds : WorkerRun(w)
    \/ \E w \in WorkerIds : WorkerGet(w)
    \/ \E w \in WorkerIds : WorkerTimeout(w)
    \/ \E w \in WorkerIds, outcome \in Outcomes : WorkerFinish(w, outcome)

NoStopSpec == Init /\ [][NextNoStop]_vars /\ Fairness

\* The manager of main.py, whose add_task is called by process_async_tool.
NextTool ==
    \/ Start
    \/ \E data \in Payloads, callback_url \in CallbackUrls, publish \in Publishes :
          ProcessAsyncTool(data, callback_url, publish)
    \/ \E w \in WorkerIds : WorkerRun(w)
    \/ \E w \in WorkerIds : WorkerGet(w)
    \/ \E w \in WorkerIds : WorkerTimeout(w)
    \/ \E w \in WorkerIds, outcome \in Outcomes : WorkerFinish(w, outcome)

ToolSpec == Init /\ [][NextTool]_vars

\* One Task object from its creation to its last update, under a clock that
\* never goes back.
TaskNext ==
    \/ Tick
    \/ \E data \in Payloads : TaskCreate(data)
    \/ TaskBegin
    \/ \E outcome \in Outcomes : TaskEnd(outcome)

TaskSpec == Init /\ [][TaskNext]_vars

\* The application as main.py wires it: the module-level manager is built,
\* and process_async_tool submits to it; no code of the application calls
\* start() or stop().
AppNext ==
    \E data \in AppPayloads, callback_url \in CallbackUrls, publish \in Publishes :
        ProcessAsyncTool(data, callback_url, publish)

AppSpec == Init /\ [][AppNext]_vars /\ Fairness

\* The module-level logger factory, called at import and by the tests.
LoggerNext ==
    \E api_name \in ApiNames, log_type \in LogTypes, installed \in Installs,
       construct \in {"ok", "raises"} :
          GetApiLogger(api_name, log_type, installed, construct)

LoggerSpec == Init /\ [][LoggerNext]_vars

\* ------------------------------------------------------------------ claims
\* ids of the accepted add_task calls, in call order
SubmittedIds ==
    LET ok == SelectSeq(returned, LAMBDA r : r.kind = "id")
    IN  [i \in 1..Len(ok) |-> ok[i].id]

LiveWorkers == {w \in DOMAIN workers : workers[w].pc # "done"}

\* C1: with capacity K and no dequeue so far, each of the first K add_task
\* calls returned an id, the ids are pairwise distinct, and call K+1 was
\* rejected with the queue-full error.
C1_CapacityThenReject ==
    dispatched = <<>> =>
        /\ \A i \in 1..Len(returned) :
              /\ i <= queue_size => returned[i].kind = "id"
              /\ i = queue_size + 1 => returned[i].kind = "QueueFull"
        /\ \A i, j \in 1..Len(returned) :
              (i < j /\ returned[i].kind = "id" /\ returned[j].kind = "id")
                  => returned[i].id # returned[j].id

C1_Witness ==
    /\ dispatched = <<>>
    /\ queue_size = 2
    /\ Len(returned) = 3
    /\ returned[1].kind = "id" /\ returned[2].kind = "id"
    /\ returned[3].kind = "QueueFull"

\* C2: under fair scheduling, a stop() called on a started manager while
\* records are queued and none is being processed eventually returns with
\* every one of those records terminal, unless a further submit occurs.
C2_GracefulDrain ==
    \A s \in Stoppers :
        (/\ stop_pc[s] = "join"
         /\ stop_at[s][1].started
         /\ stop_at[s][1].busy = 0
         /\ stop_at[s][1].queued >= 1)
        ~> (\/ /\ stop_pc[s] = "returned"
               /\ \A id \in stop_at[s][1].tasks : Terminal(id)
            \/ /\ stop_at[s] # None
               /\ DOMAIN tasks # stop_at[s][1].tasks)

\* C3: in the step in which a stop() call returns, every record registered
\* when that stop() was called is terminal and the queue is empty.
C3_DrainedAtReturn ==
    [][\A s \in Stoppers :
          (stop_pc[s] # "returned" /\ stop_pc'[s] = "returned") =>
              /\ \A id \in stop_at'[s][1].tasks :
                    tasks'[id].status \in {"completed", "failed"}
              /\ queue' = <<>>]_vars

\* C4: an add_task call made once the stop signal is set is rejected with an
\* error and registers and enqueues nothing.
C4_RejectedAfterStop ==
    [][(stop_event /\ Len(returned') = Len(returned) + 1) =>
          /\ returned'[Len(returned')].kind # "id"
          /\ tasks' = tasks
          /\ queue' = queue]_vars

\* C5: a registered record stays registered, its status moves only
\* pending -> processing -> completed | failed, and a completed or failed
\* record (status, result, error) never changes again.
C5_StatusTransitions ==
    [][\A id \in DOMAIN tasks :
          /\ id \in DOMAIN tasks'
          /\ \/ tasks'[id] = tasks[id]
             \/ /\ tasks[id].status = "pending"
                /\ tasks'[id].status = "processing"
             \/ /\ tasks[id].status = "processing"
                /\ tasks'[id].status \in {"completed", "failed"}]_vars

C5_Witness ==
    \E a, b \in DOMAIN tasks :
        /\ tasks[a].status = "completed"
        /\ tasks[b].status = "failed"

\* C6: with the workers started and stop() never called, under fair
\* scheduling every registered record eventually is completed or failed.
C6_EventuallyTerminal ==
    \A id \in 1..MaxCalls :
        (started /\ id \in DOMAIN tasks) ~> (id \in DOMAIN tasks /\ Terminal(id))

C6_Witness ==
    /\ started /\ ~stop_event
    /\ Len(SubmittedIds) >= 2
    /\ \A id \in DOMAIN tasks : Terminal(id)

\* C7: in the step in which add_task returns an id, get_task_status of that
\* id is a snapshot with status pending, result None and error None.
C7_PendingAfterAdd ==
    [][(/\ Len(returned') = Len(returned) + 1
        /\ returned'[Len(returned')].kind = "id") =>
          LET id == returned'[Len(returned')].id IN
          Snapshot(tasks', id) =
              Str([id |-> id, status |-> "pending", result |-> None, error |-> None])]_vars

C7_Witness ==
    /\ Len(returned) >= 1
    /\ returned[Len(returned)].kind = "id"
    /\ started
    /\ get_task_status(returned[Len(returned)].id)[1].status = "pending"

\* C8: with one worker, the records enter processing in the order in which
\* they were submitted: what was dispatched is a prefix of what was submitted.
C8_FifoOneWorker ==
    max_workers = 1 =>
        /\ Len(dispatched) <= Len(SubmittedIds)
        /\ dispatched = SubSeq(SubmittedIds, 1, Len(dispatched))

C8_Witness ==
    /\ max_workers = 1
    /\ Len(dispatched) >= 2
    /\ dispatched[1] # dispatched[2]

\* C9: in the step in which the work of a record faults, the record becomes
\* failed, its worker goes back to the loop head (and stays live unless the
\* stop signal is set), no other worker, no other record and not the queue
\* changes, and no add_task call gets an error from it.
C9_FaultContained ==
    [][\A id \in faulted' \ faulted :
          \E w \in DOMAIN workers :
              /\ workers[w].task = id
              /\ tasks'[id].status = "failed"
              /\ workers'[w].pc = LoopHead
              /\ ~stop_event => LiveWorkers' = LiveWorkers
              /\ \A o \in DOMAIN workers \ {w} : workers'[o] = workers[o]
              /\ \A j \in DOMAIN tasks \ {id} : tasks'[j] = tasks[j]
              /\ queue' = queue
              /\ returned' = returned]_vars

C9_Witness ==
    \E a, b \in DOMAIN tasks :
        /\ a \in faulted /\ tasks[a].status = "failed"
        /\ b \notin faulted /\ tasks[b].status = "completed"
        /\ LiveWorkers = DOMAIN workers
        /\ ~stop_event

\* C10: every failed record carries an error description that is not empty.
C10_FailedHasError ==
    \A id \in DOMAIN tasks :
        tasks[id].status = "failed" =>
            (tasks[id].error # None /\ tasks[id].error # Str(""))

Range(f) == {f[i] : i \in DOMAIN f}

HeldBy(w) == workers[w].task

\* C11: no record is dequeued twice, no two workers hold the same record, no
\* dispatched record is in the queue again, and a completed or failed record
\* is neither queued nor held by a worker.
C11_DequeuedOnce ==
    /\ \A i, j \in DOMAIN dispatched : i < j => dispatched[i] # dispatched[j]
    /\ \A v, w \in DOMAIN workers :
          (v # w /\ HeldBy(v) # 0) => HeldBy(v) # HeldBy(w)
    /\ LET queued == Range(queue) IN
          /\ queued \cap Range(dispatched) = {}
          /\ \A id \in DOMAIN tasks :
                Terminal(id) =>
                    /\ id \notin queued
                    /\ \A w \in DOMAIN workers : HeldBy(w) # id

C11_Witness ==
    /\ Len(workers) = 2
    /\ HeldBy(1) # 0 /\ HeldBy(2) # 0
    /\ \E id \in DOMAIN tasks : tasks[id].status = "failed"

\* C12: once start() has been called exactly max_workers worker coroutines
\* have been launched, however many start() calls follow and whatever is
\* interleaved, and a start() call on a started manager changes nothing.
C12_StartIdempotent ==
    [][/\ started' => Len(workers') = max_workers'
       /\ (started /\ Start) => UNCHANGED vars]_vars

C12_Witness ==
    /\ started
    /\ max_workers = 2
    /\ Len(workers) = 2
    /\ Len(SubmittedIds) >= 2
    /\ dispatched # <<>>

\* a step of stop() call s itself (not its wake-up by task_done)
StopStep(s) ==
    /\ stop_pc'[s] # stop_pc[s]
    /\ ~(stop_pc[s] = "join" /\ stop_pc'[s] = "woken")

\* C13: a stop() call made after an earlier stop() call has returned returns
\* too (under fair scheduling), and none of its steps changes the queue, the
\* registry, a record, the list of workers or which of them are live.
C13_SecondStopNoOp ==
    /\ \A s \in Stoppers \ {1} : (stop_pc[s] # "idle") ~> (stop_pc[s] = "returned")
    /\ [][\A s \in Stoppers \ {1} :
             StopStep(s) =>
                 /\ queue' = queue
                 /\ tasks' = tasks
                 /\ Len(workers') = Len(workers)
                 /\ LiveWorkers' = LiveWorkers]_vars

\* C14: while start() has not been called, after M accepted add_task calls
\* get_queue_stats reports queue_size M, max_queue_size K, active_workers 0
\* and total_tasks M.
C14_StatsBeforeStart ==
    ~started =>
        LET stats == get_queue_stats
            submitted == Len(SubmittedIds)
        IN  /\ stats.queue_size = submitted
            /\ stats.max_queue_size = queue_size
            /\ stats.active_workers = 0
            /\ stats.total_tasks = submitted

C14_Witness ==
    /\ ~started
    /\ queue_size = 2
    /\ Len(SubmittedIds) = 2
    /\ get_queue_stats.queue_size = 2

\* ids a caller may ask for: those add_task can return here, and two more
AskedIds == 0..(MaxCalls + 1)

\* C15: get_task_status of an id that no add_task call returned is None (it
\* is a read of the registry: it has no step and changes nothing).
C15_UnknownIsNone ==
    LET known == Range(SubmittedIds) IN
    \A id \in AskedIds :
        id \notin known => get_task_status(id) = None

C15_Witness ==
    /\ Len(SubmittedIds) >= 2
    /\ get_task_status(SubmittedIds[1]) # None
    /\ get_task_status(Len(SubmittedIds) + 1) = None

\* C16: whenever the publish of process_async_tool raised, the caller still
\* got the response with the id of the record that was registered.
C16_PublishFailureHidden ==
    \A i \in DOMAIN tool_returned :
        tool_returned[i].publish = "raises" =>
            /\ tool_returned[i].kind = "response"
            /\ tool_returned[i].task_id = tool_returned[i].registered

\* C17: add_task never waits: whatever the queue and the workers are doing, a
\* call can be taken now, and the step of a call ends the call with an id
\* (of a record that is pending) or with the QueueFull rejection.
C17_AddTaskNeverWaits ==
    [][/\ Len(returned) < MaxCalls => ENABLED (\E data \in Payloads : AddTask(data))
       /\ (\E data \in Payloads : AddTask(data)) =>
             /\ Len(returned') = Len(returned) + 1
             /\ LET r == returned'[Len(returned')] IN
                   IF QueueFull
                      THEN r.kind = "QueueFull" /\ tasks' = tasks /\ queue' = queue
                      ELSE /\ r.kind = "id"
                           /\ Snapshot(tasks', r.id)[1].status = "pending"]_vars

C17_Witness ==
    /\ \E i \in DOMAIN returned : returned[i].kind = "QueueFull"
    /\ stop_event
    /\ Len(returned) = MaxCalls
    /\ returned[MaxCalls].kind = "id"
    /\ \E w \in DOMAIN workers : workers[w].pc = "processing"

\* C18: the registry only grows: no step removes an id from it, and every id
\* add_task has returned is still answered by get_task_status.
C18_RegistryAppendOnly ==
    [][/\ DOMAIN tasks \subseteq DOMAIN tasks'
       /\ \A i \in DOMAIN returned' :
             returned'[i].kind = "id" => Snapshot(tasks', returned'[i].id) # None]_vars

C18_Witness ==
    /\ stop_pc[1] = "returned"
    /\ Cardinality(DOMAIN tasks) = MaxCalls
    /\ \A id \in Range(SubmittedIds) : get_task_status(id) # None
    /\ \E id \in DOMAIN tasks : Terminal(id)

\* C19: all the calls of get_api_logger with one name that returned, returned
\* the same instance, and at most one logger was constructed for a name.
C19_LoggerPerName ==
    /\ \A i, j \in DOMAIN logger_calls :
          (/\ logger_calls[i].api_name = logger_calls[j].api_name
           /\ logger_calls[i].kind = "logger"
           /\ logger_calls[j].kind = "logger")
          => logger_calls[i].logger = logger_calls[j].logger
    /\ \A api_name \in ApiNames :
          Cardinality({i \in CreatedLoggers : logger_calls[i].api_name = api_name}) <= 1

C19_Witness ==
    /\ Len(logger_calls) = MaxLoggerCalls
    /\ logger_calls[1].api_name = logger_calls[3].api_name
    /\ logger_calls[1].kind = "error"
    /\ logger_calls[2].api_name # logger_calls[1].api_name
    /\ logger_calls[2].created
    /\ logger_calls[3].created
    /\ logger_calls[4].api_name = logger_calls[3].api_name
    /\ logger_calls[4].logger = logger_calls[3].logger
    /\ logger_calls[3].logger # logger_calls[2].logger

\* C20: with any number of workers, the i-th record to be dispatched is the
\* i-th record that was submitted.
C20_FifoDispatch ==
    LET submitted == SubmittedIds IN
    \A i \in DOMAIN dispatched :
        /\ i <= Len(submitted)
        /\ dispatched[i] = submitted[i]

C20_Witness ==
    /\ max_workers = 2
    /\ Len(dispatched) = MaxCalls
    /\ HeldBy(1) # 0 /\ HeldBy(2) # 0
    /\ HeldBy(1) > HeldBy(2)

\* C21: every snapshot get_task_status can return is whole: it has a result
\* exactly when its status is completed and an error exactly when its status
\* is failed.
C21_SnapshotWhole ==
    \A id \in AskedIds :
        LET snap == get_task_status(id) IN
        snap # None =>
            /\ (snap[1].result # None) <=> (snap[1].status = "completed")
            /\ (snap[1].error # None) <=> (snap[1].status = "failed")

C21_Witness ==
    /\ \E id \in DOMAIN tasks : get_task_status(id)[1].status = "completed"
    /\ \E id \in DOMAIN tasks : get_task_status(id)[1].status = "failed"
    /\ \E id \in DOMAIN tasks : get_task_status(id)[1].status = "processing"

\* the workers whose _process_task is at work on the record id
Holders(id) == {w \in DOMAIN workers : workers[w].pc = "processing" /\ HeldBy(w) = id}

\* C22: a worker at work on a record is never cancelled, a record that is
\* processing always has its worker, and once a stop() has returned no record
\* is processing: what was processing when stop() was called has ended.
C22_ProcessingNotAbandoned ==
    /\ \A w \in DOMAIN workers : workers[w].pc = "processing" => ~workers[w].cancelled
    /\ \A id \in DOMAIN tasks : tasks[id].status = "processing" => Holders(id) # {}
    /\ \A s \in Stoppers :
          stop_pc[s] = "returned" =>
              \A id \in stop_at[s][1].tasks : tasks[id].status # "processing"

C22_Witness ==
    /\ stop_pc[1] = "returned"
    /\ stop_at[1][1].busy = 2
    /\ \A id \in stop_at[1][1].tasks : Terminal(id)

\* the step in which the stop() call s returns
StopReturns(s) == stop_pc[s] # "returned" /\ stop_pc'[s] = "returned"

\* C23 as stated: when a stop() returns every worker has ended, and once a
\* stop() has returned no worker takes a step (no worker changes).
C23_NoWorkerStepAfterStop ==
    [][/\ \A s \in Stoppers :
             StopReturns(s) => \A w \in DOMAIN workers' : workers'[w].pc = "done"
       /\ (\E s \in Stoppers : stop_pc[s] = "returned") =>
             \A w \in DOMAIN workers : workers'[w] = workers[w]]_vars

\* C23, amended: when a stop() returns every worker launched by start() has
\* ended, and the workers launched before a stop() returned take no step
\* after it (a start() that comes first after stop() still launches workers).
C23_WorkersEndedAtReturn ==
    [][/\ \A s \in Stoppers :
             StopReturns(s) => \A w \in DOMAIN workers' : workers'[w].pc = "done"
       /\ (\E s \in Stoppers : stop_pc[s] = "returned" /\ stop_at[s][1].started) =>
             workers' = workers]_vars

C23_Witness ==
    /\ stop_pc[1] = "returned"
    /\ stop_at[1][1].started
    /\ stop_at[1][1].busy >= 1
    /\ Len(workers) = 2
    /\ AllWorkersDone
    /\ Cardinality(DOMAIN tasks) > Cardinality(stop_at[1][1].tasks)

\* worker w waits on the empty queue after the stop signal was set
IdleAfterStop(w) ==
    /\ w \in DOMAIN workers
    /\ workers[w].pc = "waiting"
    /\ queue = <<>>
    /\ stop_event

\* C24: a worker that waits on the empty queue once the stop signal is set
\* is never blocked: while it is not cancelled its poll can time out, and the
\* time-out takes it out of the loop without any cancellation.
C24_IdleWorkerExits ==
    [][\A w \in WorkerIds :
          (IdleAfterStop(w) /\ ~workers[w].cancelled) =>
              /\ ENABLED WorkerTimeout(w)
              /\ WorkerTimeout(w) =>
                    (workers'[w].pc = "done" /\ ~workers'[w].cancelled)]_vars

C24_Witness ==
    /\ Len(workers) = 2
    /\ workers[1].pc = "processing"
    /\ IdleAfterStop(2) /\ ~workers[2].cancelled
    /\ stop_pc[1] = "join"

\* C25: once a stop() has returned, get_queue_stats reports is_started false.
C25_StoppedAfterStop ==
    \A s \in Stoppers :
        stop_pc[s] = "returned" => ~get_queue_stats.is_started

\* C26: what get_queue_stats returns is the state it is called in: the
\* number of records waiting (accepted and not yet dispatched), the capacity,
\* the configured worker count, the number of records registered (every
\* accepted one), and the started flag (true once start() has launched the
\* workers).
C26_StatsConsistent ==
    LET stats == get_queue_stats
        submitted == Len(SubmittedIds)
    IN  /\ stats.queue_size = Len(queue)
        /\ stats.queue_size = submitted - Len(dispatched)
        /\ stats.max_queue_size = queue_size
        /\ stats.max_workers = max_workers
        /\ stats.total_tasks = Cardinality(DOMAIN tasks)
        /\ stats.total_tasks = submitted
        /\ stats.is_started = started
        /\ stats.is_started <=> (workers # <<>>)

C26_Witness ==
    /\ get_queue_stats.queue_size = 1
    /\ get_queue_stats.total_tasks = 3
    /\ get_queue_stats.is_started
    /\ get_queue_stats.max_workers = 2
    /\ get_queue_stats.max_queue_size = 2
    /\ \E id \in DOMAIN tasks : Terminal(id)
    /\ \E id \in DOMAIN tasks : tasks[id].status = "processing"

\* C27: active_workers of get_queue_stats is the number of worker loops that
\* run: 0 before start(), max_workers while the pool runs (started and no
\* stop signal), and 0 once a stop() of the started pool has returned.
C27_ActiveWorkersRunning ==
    LET active == get_queue_stats.active_workers IN
    /\ ~started => active = 0
    /\ (started /\ ~stop_event) => (active = max_workers /\ active = Cardinality(LiveWorkers))
    /\ (\E s \in Stoppers : stop_pc[s] = "returned" /\ stop_at[s][1].started)
           => active = 0

\* C28: a new Task has updated_at = created_at = the clock reading; an update
\* never changes created_at, sets updated_at to the clock reading of the
\* update whenever the status changes, and never moves updated_at back or
\* before created_at.
C28_UpdatedAt ==
    [][/\ (timed = <<>> /\ timed' # <<>>) =>
             /\ timed'[1].created_at = now
             /\ timed'[1].updated_at = timed'[1].created_at
       /\ (timed # <<>> /\ timed' # <<>>) =>
             /\ timed'[1].created_at = timed[1].created_at
             /\ timed'[1].updated_at >= timed[1].updated_at
             /\ timed'[1].updated_at >= timed'[1].created_at
             /\ timed'[1].status # timed[1].status => timed'[1].updated_at = now]_vars

C28_Witness ==
    /\ timed # <<>>
    /\ timed[1].status = "failed"
    /\ timed[1].created_at = 1
    /\ timed[1].updated_at = 3

\* C29: asked for an id that was never registered, the status tool returns
\* (an absent result) and the route does not answer with an error.
C29_UnknownNotAnError ==
    LET known == Range(SubmittedIds) IN
    \A id \in AskedIds :
        id \notin known =>
            /\ get_task_status_tool(id).kind = "returns"
            /\ get_task_status_route(id).status_code # 500

\* C30: in the application, every task the async submission tool has accepted
\* is eventually completed or failed.
C30_AcceptedEventuallyDone ==
    \A id \in 1..MaxCalls :
        (\E i \in DOMAIN tool_returned :
            tool_returned[i].kind = "response" /\ tool_returned[i].task_id = id)
        ~> (id \in DOMAIN tasks /\ Terminal(id))

\* the step of an add_task call that raises the queue-full error
AddTaskRejected ==
    /\ Len(returned') = Len(returned) + 1
    /\ returned'[Len(returned')].kind = "QueueFull"

\* C31: an add_task call rejected for capacity changes nothing: the registry
\* (and total_tasks), the queue, its unfinished count and every record are as
\* before, and so are the workers and the stop() calls.
C31_RejectedAddChangesNothing ==
    [][AddTaskRejected =>
          /\ tasks' = tasks
          /\ queue' = queue
          /\ unfinished' = unfinished
          /\ get_queue_stats' = get_queue_stats
          /\ workers' = workers
          /\ <<started, stop_event, stop_pc, dispatched, faulted>>'
                = <<started, stop_event, stop_pc, dispatched, faulted>>]_vars

C31_Witness ==
    /\ returned # <<>>
    /\ returned[Len(returned)].kind = "QueueFull"
    /\ Len(queue) = queue_size
    /\ \E id \in DOMAIN tasks : tasks[id].status = "processing"

\* C32: the queue never holds more records than the capacity K >= 1 the
\* manager was built with, whatever the order of submits and dequeues.
C32_QueueWithinCapacity ==
    /\ queue_size >= 1
    /\ Len(queue) <= queue_size

C32_Witness ==
    /\ Len(queue) = queue_size
    /\ dispatched # <<>>
    /\ \E i \in DOMAIN returned : returned[i].kind = "QueueFull"

\* the records a worker is at work on
Processing == {id \in DOMAIN tasks : tasks[id].status = "processing"}

\* C33: at most max_workers records are processing at any time, and none is
\* as long as start() has not been called.
C33_ProcessingWithinWorkers ==
    LET busy == Cardinality(Processing) IN
    /\ busy <= max_workers
    /\ ~started => busy = 0

C33_Witness ==
    /\ max_workers = 2
    /\ Cardinality(Processing) = 2
    /\ queue # <<>>

\* the records held by the workers that are inside _process_task
Held == {workers[w].task : w \in {v \in DOMAIN workers : workers[v].pc = "processing"}}

\* C36: every registered record is in exactly one place: waiting in the queue
\* (once, and then pending), held by exactly one worker (and then processing),
\* or completed or failed; every queued record is registered; and the registry
\* has as many records as the queue, the workers and the terminal ones together.
C36_Conservation ==
    LET queued == Range(queue)
        held == Held
        terminal == {id \in DOMAIN tasks : Terminal(id)}
    IN  /\ queued \subseteq DOMAIN tasks
        /\ Cardinality(queued) = Len(queue)
        /\ \A id \in queued : tasks[id].status = "pending"
        /\ \A id \in held : Cardinality(Holders(id)) = 1 /\ tasks[id].status = "processing"
        /\ queued \cup held \cup terminal = DOMAIN tasks
        /\ queued \cap held = {} /\ queued \cap terminal = {} /\ held \cap terminal = {}
        /\ Cardinality(DOMAIN tasks)
              = Len(queue) + Cardinality(held) + Cardinality(terminal)

C36_Witness ==
    /\ Len(queue) = 1
    /\ Cardinality(Held) = 1
    /\ \E id \in DOMAIN tasks : Terminal(id)
    /\ stop_event

\* how many records had been dispatched when the first stop() was called
DispatchedAtStop == Cardinality(stop_at[1][1].tasks) - stop_at[1][1].queued

\* C34: once the stop signal is set no worker comes (back) to the dequeue: a
\* worker that was waiting in it may begin one record, a worker that ends a
\* record or has not run yet ends, an ended worker stays ended, whatever is
\* in the queue; so at most one record per worker is begun after the signal.
C34_OneMoreRecordAfterStop ==
    [][stop_event =>
          /\ \A w \in DOMAIN workers :
                /\ workers'[w].pc = "waiting" => workers[w].pc = "waiting"
                /\ workers'[w].pc = "processing" =>
                      workers[w].pc \in {"waiting", "processing"}
                /\ (workers[w].pc = "processing" /\ workers'[w].pc = "processing") =>
                      workers'[w].task = workers[w].task
                /\ workers[w].pc = "done" => workers'[w].pc = "done"
          /\ \A w \in DOMAIN workers' \ DOMAIN workers : workers'[w].pc = "created"
          /\ Len(dispatched') - DispatchedAtStop' <= Len(workers')]_vars

C34_Witness ==
    /\ stop_event
    /\ workers # <<>>
    /\ \A w \in DOMAIN workers : workers[w].pc = "done" /\ ~workers[w].cancelled
    /\ queue # <<>>
    /\ Len(dispatched) = DispatchedAtStop + 1

\* a stop() call has returned
StopReturned == \E s \in Stoppers : stop_pc[s] = "returned"

\* a stop() call made after start() has returned
StartedStopReturned ==
    \E s \in Stoppers : stop_pc[s] = "returned" /\ stop_at[s][1].started

\* C35 as stated: after a stop() has returned, no step (so no start() call)
\* launches a worker or changes _started, and no record is dispatched.
C35_NoRestart ==
    [][StopReturned =>
          /\ Len(workers') = Len(workers)
          /\ started' = started
          /\ dispatched' = dispatched]_vars

\* C35: after a stop() has returned no record is dispatched any more; and if
\* start() had been called before that stop(), no later step (so no start()
\* call) launches a worker or changes _started.
C35_NoRestartOnceStarted ==
    [][/\ StopReturned => dispatched' = dispatched
       /\ StartedStopReturned =>
             /\ Len(workers') = Len(workers)
             /\ started' = started
             /\ \A w \in DOMAIN workers : workers'[w].pc = "done"]_vars

C35_Witness ==
    /\ stop_pc[1] = "returned"
    /\ stop_at[1][1].started
    /\ stop_at[1][1].tasks # {}
    /\ queue # <<>>
    /\ \A id \in Range(queue) : id \notin stop_at[1][1].tasks

\* the stop() call s was made, on a manager that start() had not been called on
StoppedUnstarted(s) == stop_pc[s] # "idle" /\ ~stop_at[s][1].started

\* C37: a stop() call on a manager never started changes no record and
\* returns in its own step exactly when the queue is empty; if records were
\* queued it stays in queue.join() for ever after (also when start() is
\* called later) and those records stay queued and pending.
C37_UnstartedStop ==
    [][\A s \in Stoppers :
          /\ (stop_pc[s] = "idle" /\ stop_pc'[s] # "idle" /\ ~started) =>
                /\ tasks' = tasks /\ queue' = queue
                /\ (queue = <<>>) <=> (stop_pc'[s] = "returned")
                /\ (queue # <<>>) <=> (stop_pc'[s] = "join")
          /\ (StoppedUnstarted(s) /\ stop_at[s][1].queued = 0) =>
                stop_pc[s] = "returned" /\ stop_pc'[s] = "returned"
          /\ (StoppedUnstarted(s) /\ stop_at[s][1].queued > 0) =>
                /\ stop_pc[s] = "join" /\ stop_pc'[s] = "join"
                /\ \A id \in stop_at[s][1].tasks :
                      /\ tasks'[id].status = "pending"
                      /\ \E i \in DOMAIN queue' : queue'[i] = id]_vars

C37_Witness ==
    /\ StoppedUnstarted(1) /\ stop_pc[1] = "returned"
    /\ StoppedUnstarted(2) /\ stop_pc[2] = "join"
    /\ stop_at[2][1].queued = 2
    /\ started
    /\ AllWorkersDone
    /\ \A id \in DOMAIN tasks : tasks[id].status = "pending"
====
